---- MODULE Spec2Model ----
(***************************************************************************)
(* Model of the transaction engine: the Account state machine of           *)
(* src/src/types.rs and the sequential dispatcher process_transactions of  *)
(* src/src/engine.rs.                                                      *)
(*                                                                         *)
(* Decimal amounts are modelled as integers counting units of the smallest *)
(* scale; Decimal comparison and equality are numeric, as are Int's.       *)
(* The input Vec<Transaction> is revealed one record at a time: its length *)
(* is fixed at Init and each loop iteration draws the next record.         *)
(* A diagnostic string is represented by the text interpolated into it     *)
(* (the transaction id, or the unrecognised type string).                  *)
(***************************************************************************)
EXTENDS Integers, Sequences, FiniteSets, TLC

\* ------------------------------------------------------------- bounds
\* Longest input sequence explored.
MaxRecords == 5

\* Client ids (u16 in the source), transaction ids (u32) and amounts
\* (Decimal, which may be negative: the record source does not reject them).
Clients == {1, 2}
TxIds == {1, 2}
Amounts == {-1, 1}

\* The five recognised type strings and one that is none of them.
TransactionTypes ==
    {"deposit", "withdrawal", "dispute", "resolve", "chargeback", "refund"}

\* struct Transaction. The amount of a record that is no deposit or withdrawal
\* is never read; it is 0 here, as in the tests.
Transaction ==
    [transaction_type : {"deposit", "withdrawal"},
     client : Clients, tx : TxIds, amount : Amounts]
    \cup
    [transaction_type : TransactionTypes \ {"deposit", "withdrawal"},
     client : Clients, tx : TxIds, amount : {0}]

\* ------------------------------------------------------------ Account
\* Account::new
new(client, available, held, locked) ==
    [client |-> client, available |-> available, held |-> held,
     total |-> available + held, locked |-> locked]

\* Account::empty
empty(client) == new(client, 0, 0, FALSE)

Ok(a) == [ok |-> TRUE, account |-> a, err |-> ""]
Err(a, e) == [ok |-> FALSE, account |-> a, err |-> e]

\* Account::deposit
deposit(a, amount) ==
    Ok([a EXCEPT !.available = @ + amount, !.total = @ + amount])

\* A withdraw that also refuses to empty the account: `>=` for `>`.
withdraw_refuses_exact(a, amount) ==
    IF amount >= a.available
    THEN Err(a, "Insufficient available funds")
    ELSE Ok([a EXCEPT !.available = @ - amount, !.total = @ - amount])

\* A withdraw that debits first and checks afterwards.
withdraw_debit_first(a, amount) ==
    LET b == [a EXCEPT !.available = @ - amount, !.total = @ - amount]
    IN  IF amount > a.available
        THEN Err(b, "Insufficient available funds")
        ELSE Ok(b)

\* Account::withdraw
withdraw(a, amount) ==
    IF amount > a.available
    THEN Err(a, "Insufficient available funds")
    ELSE Ok([a EXCEPT !.available = @ - amount, !.total = @ - amount])

\* A dispute that holds the amount without looking at the available funds.
dispute_unchecked(a, amount) ==
    Ok([a EXCEPT !.available = @ - amount, !.held = @ + amount])

\* Account::dispute
dispute(a, amount) ==
    IF amount > a.available
    THEN Err(a, "Insufficient available funds")
    ELSE Ok([a EXCEPT !.available = @ - amount, !.held = @ + amount])

\* Account::resolve
resolve(a, amount) ==
    IF amount > a.held
    THEN Err(a, "Insufficient held funds")
    ELSE Ok([a EXCEPT !.available = @ + amount, !.held = @ - amount])

\* A chargeback that forgets `self.total -= amount`.
chargeback_keeps_total(a, amount) ==
    IF amount > a.held
    THEN Err(a, "Insufficient held funds")
    ELSE Ok([a EXCEPT !.held = @ - amount, !.locked = TRUE])

\* A chargeback that forgets `self.locked = true`.
chargeback_forgets_lock(a, amount) ==
    IF amount > a.held
    THEN Err(a, "Insufficient held funds")
    ELSE Ok([a EXCEPT !.held = @ - amount, !.total = @ - amount])

\* Account::chargeback
chargeback(a, amount) ==
    IF amount > a.held
    THEN Err(a, "Insufficient held funds")
    ELSE Ok([a EXCEPT !.held = @ - amount, !.total = @ - amount,
                      !.locked = TRUE])

\* ---------------------------------------------------------- processor
VARIABLES
    accounts,      \* HashMap<u16, Account>
    applied_txs,   \* HashMap<u32, Decimal>
    disputed_txs,  \* HashMap<u32, Decimal>
    tx_errors,     \* Vec<String>
    pc,            \* "loop" while iterating, "returned" after the return
    input_len,     \* transactions.len()
    consumed,      \* records taken from the iterator so far
    \* History of the run, read by the properties only:
    rejected,      \* how many records so far ended in a diagnostic branch
    ever_applied,  \* tx ids of the deposits and withdrawals accepted so far
    open_disputes, \* tx ids whose last accepted dispute has not been followed
                   \* by an accepted resolve or chargeback
    clients_seen,  \* client ids of the records taken so far
    charged_back   \* client ids of the chargeback records accepted so far

vars == <<accounts, applied_txs, disputed_txs, tx_errors, pc, input_len,
          consumed, rejected, ever_applied, open_disputes, clients_seen,
          charged_back>>

\* HashMap::insert / HashMap::remove
insert(map, k, v) == (k :> v) @@ map
remove(map, k) == [x \in DOMAIN map \ {k} |-> map[x]]

\* accounts.entry(client).or_insert_with(|| Account::empty(client))
or_insert_empty(map, client) ==
    IF client \in DOMAIN map THEN map ELSE insert(map, client, empty(client))

\* format!(template, arg) and format!(template, arg, err)
format(template, arg, err) == ToString(arg)

\* let account = accounts.entry(..).or_insert_with(..)
account_of(s, t) == or_insert_empty(s.accounts, t.client)[t.client]

\* The four locals of process_transactions, as one value.
Locals ==
    [accounts |-> accounts, applied_txs |-> applied_txs,
     disputed_txs |-> disputed_txs, tx_errors |-> tx_errors]

\* A `break` where the loop has `continue`.
break_out == "returned"

\* What the loop does after a diagnostic is pushed: `continue`.
continue == "loop"

\* A loop iteration that falls through the end of the match: the account
\* looked up at the top of the loop holds `account`, the ledgers are as given.
Accept(s, t, account, applied, disputed) ==
    [accounts |-> [or_insert_empty(s.accounts, t.client)
                       EXCEPT ![t.client] = account],
     applied_txs |-> applied,
     disputed_txs |-> disputed,
     tx_errors |-> s.tx_errors,
     accepted |-> TRUE,
     pc |-> "loop"]

\* A rejection in a loop that looks the account up only once the record is
\* known to be applicable: a client seen for the first time gets no account.
Reject_without_entry(s, t, account, message) ==
    [accounts |-> IF t.client \in DOMAIN s.accounts
                  THEN [s.accounts EXCEPT ![t.client] = account]
                  ELSE s.accounts,
     applied_txs |-> s.applied_txs,
     disputed_txs |-> s.disputed_txs,
     tx_errors |-> Append(s.tx_errors, message),
     accepted |-> FALSE,
     pc |-> continue]

\* A loop iteration that pushes a diagnostic and continues. `account` is what
\* the &mut Account behind the lookup holds at that point: the Account method
\* that failed worked on it in place.
Reject(s, t, account, message) ==
    [accounts |-> [or_insert_empty(s.accounts, t.client)
                       EXCEPT ![t.client] = account],
     applied_txs |-> s.applied_txs,
     disputed_txs |-> s.disputed_txs,
     tx_errors |-> Append(s.tx_errors, message),
     accepted |-> FALSE,
     pc |-> continue]

\* A deposit arm that refuses a locked account.
deposit_arm_refuses_locked(s, t) ==
    IF account_of(s, t).locked
    THEN Reject(s, t, account_of(s, t),
                format("Error when handling transaction {}: {}", t.tx, "locked"))
    ELSE LET r == deposit(account_of(s, t), t.amount)
         IN  Accept(s, t, r.account, insert(s.applied_txs, t.tx, t.amount),
                    s.disputed_txs)

\* "deposit" arm
deposit_arm(s, t) ==
    LET r == deposit(account_of(s, t), t.amount)
    IN  Accept(s, t, r.account, insert(s.applied_txs, t.tx, t.amount),
               s.disputed_txs)

\* A withdrawal arm that refuses a locked account.
withdrawal_arm_refuses_locked(s, t) ==
    LET r == IF account_of(s, t).locked
             THEN Err(account_of(s, t), "Account locked")
             ELSE withdraw(account_of(s, t), t.amount)
    IN  IF r.ok
        THEN Accept(s, t, r.account, insert(s.applied_txs, t.tx, t.amount),
                    s.disputed_txs)
        ELSE Reject(s, t, r.account, format("Error when handling transaction {}: {}",
                                 t.tx, r.err))

\* A withdrawal arm that records the withdrawn amount with a minus sign.
withdrawal_arm_records_negative(s, t) ==
    LET r == withdraw(account_of(s, t), t.amount)
    IN  IF r.ok
        THEN Accept(s, t, r.account, insert(s.applied_txs, t.tx, 0 - t.amount),
                    s.disputed_txs)
        ELSE Reject(s, t, r.account, format("Error when handling transaction {}: {}",
                                 t.tx, r.err))

\* "withdrawal" arm
withdrawal_arm(s, t) ==
    LET r == withdraw(account_of(s, t), t.amount)
    IN  IF r.ok
        THEN Accept(s, t, r.account, insert(s.applied_txs, t.tx, t.amount),
                    s.disputed_txs)
        ELSE Reject(s, t, r.account, format("Error when handling transaction {}: {}",
                                 t.tx, r.err))

\* A dispute arm that takes an unknown tx id for a transaction of amount 0.
dispute_arm_unknown_as_zero(s, t) ==
    IF t.tx \in DOMAIN s.disputed_txs
    THEN Reject(s, t, account_of(s, t),
                format("Could not dispute same transaction {} twice", t.tx, ""))
    ELSE LET disputable ==
                 IF t.tx \in DOMAIN s.applied_txs THEN s.applied_txs[t.tx] ELSE 0
             r == dispute(account_of(s, t), disputable)
         IN  IF r.ok
             THEN Accept(s, t, r.account, s.applied_txs,
                         insert(s.disputed_txs, t.tx, disputable))
             ELSE Reject(s, t, r.account,
                         format("Could not dispute transaction {}: {}",
                                t.tx, r.err))

\* A dispute arm without the lookup in disputed_txs.
dispute_arm_allows_twice(s, t) ==
    IF t.tx \notin DOMAIN s.applied_txs
    THEN Reject(s, t, account_of(s, t),
                format("Could not find applied transaction {} to dispute",
                       t.tx, ""))
    ELSE LET disputable == s.applied_txs[t.tx]
             r == dispute(account_of(s, t), disputable)
         IN  IF r.ok
             THEN Accept(s, t, r.account, s.applied_txs,
                         insert(s.disputed_txs, t.tx, disputable))
             ELSE Reject(s, t, r.account,
                         format("Could not dispute transaction {}: {}",
                                t.tx, r.err))

\* "dispute" arm
dispute_arm(s, t) ==
    IF t.tx \notin DOMAIN s.applied_txs
    THEN Reject(s, t, account_of(s, t),
                format("Could not find applied transaction {} to dispute",
                             t.tx, ""))
    ELSE IF t.tx \in DOMAIN s.disputed_txs
    THEN Reject(s, t, account_of(s, t),
                format("Could not dispute same transaction {} twice",
                             t.tx, ""))
    ELSE LET disputable == s.applied_txs[t.tx]
             r == dispute(account_of(s, t), disputable)
         IN  IF r.ok
             THEN Accept(s, t, r.account, s.applied_txs,
                         insert(s.disputed_txs, t.tx, disputable))
             ELSE Reject(s, t, r.account,
                         format("Could not dispute transaction {}: {}",
                                      t.tx, r.err))

\* A resolve arm that leaves the resolved tx id in disputed_txs.
resolve_arm_keeps_entry(s, t) ==
    IF t.tx \notin DOMAIN s.disputed_txs
    THEN Reject(s, t, account_of(s, t),
                format("Could not find disputed transaction {} to resolve",
                       t.tx, ""))
    ELSE LET resolvable == s.disputed_txs[t.tx]
             r == resolve(account_of(s, t), resolvable)
         IN  IF r.ok
             THEN Accept(s, t, r.account, s.applied_txs, s.disputed_txs)
             ELSE Reject(s, t, r.account,
                         format("Could not resolve disputed transaction {}: {}",
                                t.tx, r.err))

\* A resolve arm that also drops the resolved tx id from applied_txs.
resolve_arm_forgets_applied(s, t) ==
    IF t.tx \notin DOMAIN s.disputed_txs
    THEN Reject(s, t, account_of(s, t),
                format("Could not find disputed transaction {} to resolve",
                       t.tx, ""))
    ELSE LET resolvable == s.disputed_txs[t.tx]
             r == resolve(account_of(s, t), resolvable)
         IN  IF r.ok
             THEN Accept(s, t, r.account, remove(s.applied_txs, t.tx),
                         remove(s.disputed_txs, t.tx))
             ELSE Reject(s, t, r.account,
                         format("Could not resolve disputed transaction {}: {}",
                                t.tx, r.err))

\* A resolve arm that releases the amount found in applied_txs.
resolve_arm_reads_applied(s, t) ==
    IF t.tx \notin DOMAIN s.disputed_txs
    THEN Reject(s, t, account_of(s, t),
                format("Could not find disputed transaction {} to resolve",
                       t.tx, ""))
    ELSE LET resolvable == s.applied_txs[t.tx]
             r == resolve(account_of(s, t), resolvable)
         IN  IF r.ok
             THEN Accept(s, t, r.account, s.applied_txs,
                         remove(s.disputed_txs, t.tx))
             ELSE Reject(s, t, r.account,
                         format("Could not resolve disputed transaction {}: {}",
                                t.tx, r.err))

\* "resolve" arm
resolve_arm(s, t) ==
    IF t.tx \notin DOMAIN s.disputed_txs
    THEN Reject(s, t, account_of(s, t),
                format("Could not find disputed transaction {} to resolve",
                             t.tx, ""))
    ELSE LET resolvable == s.disputed_txs[t.tx]
             r == resolve(account_of(s, t), resolvable)
         IN  IF r.ok
             THEN Accept(s, t, r.account, s.applied_txs,
                         remove(s.disputed_txs, t.tx))
             ELSE Reject(s, t, r.account,
                         format("Could not resolve disputed transaction {}: {}",
                                      t.tx, r.err))

\* A chargeback arm that leaves the charged back tx id in disputed_txs.
chargeback_arm_keeps_entry(s, t) ==
    IF t.tx \notin DOMAIN s.disputed_txs
    THEN Reject(s, t, account_of(s, t),
                format("Could not find disputed transaction {} to charge back",
                       t.tx, ""))
    ELSE LET back_chargeable == s.disputed_txs[t.tx]
             r == chargeback(account_of(s, t), back_chargeable)
         IN  IF r.ok
             THEN Accept(s, t, r.account, s.applied_txs, s.disputed_txs)
             ELSE Reject(s, t, r.account,
                         format("Could not charge back disputed transaction {}: {}",
                                t.tx, r.err))

\* A chargeback arm that freezes every account of the run.
chargeback_arm_locks_all(s, t) ==
    IF t.tx \notin DOMAIN s.disputed_txs
    THEN Reject(s, t, account_of(s, t),
                format("Could not find disputed transaction {} to charge back",
                       t.tx, ""))
    ELSE LET back_chargeable == s.disputed_txs[t.tx]
             r == chargeback(account_of(s, t), back_chargeable)
             done == Accept(s, t, r.account, s.applied_txs,
                            remove(s.disputed_txs, t.tx))
         IN  IF r.ok
             THEN [done EXCEPT !.accounts =
                       [c \in DOMAIN done.accounts |->
                           [done.accounts[c] EXCEPT !.locked = TRUE]]]
             ELSE Reject(s, t, r.account,
                         format("Could not charge back disputed transaction {}: {}",
                                t.tx, r.err))

\* "chargeback" arm
chargeback_arm(s, t) ==
    IF t.tx \notin DOMAIN s.disputed_txs
    THEN Reject(s, t, account_of(s, t),
                format("Could not find disputed transaction {} to charge back",
                             t.tx, ""))
    ELSE LET back_chargeable == s.disputed_txs[t.tx]
             r == chargeback(account_of(s, t), back_chargeable)
         IN  IF r.ok
             THEN Accept(s, t, r.account, s.applied_txs,
                         remove(s.disputed_txs, t.tx))
             ELSE Reject(s, t, r.account,
                         format("Could not charge back disputed transaction {}: {}",
                                      t.tx, r.err))

\* A catch-all arm that skips the record without a diagnostic.
unhandled_arm_silent(s, t) ==
    [Reject(s, t, account_of(s, t), "") EXCEPT !.tx_errors = s.tx_errors]

\* the catch-all arm `t => ...`
unhandled_arm(s, t) ==
    Reject(s, t, account_of(s, t),
           format("Unhandled transaction type: {}", t.transaction_type, ""))

\* The body of the loop: match transaction.transaction_type.as_str()
loop_body(s, t) ==
    CASE t.transaction_type = "deposit" -> deposit_arm(s, t)
      [] t.transaction_type = "withdrawal" -> withdrawal_arm(s, t)
      [] t.transaction_type = "dispute" -> dispute_arm(s, t)
      [] t.transaction_type = "resolve" -> resolve_arm(s, t)
      [] t.transaction_type = "chargeback" -> chargeback_arm(s, t)
      [] OTHER -> unhandled_arm(s, t)

\* The locals left by an iteration, without its outcome flags.
locals_of(r) ==
    [accounts |-> r.accounts, applied_txs |-> r.applied_txs,
     disputed_txs |-> r.disputed_txs, tx_errors |-> r.tx_errors]

\* The iterator yields another record.
HasNext == pc = "loop" /\ consumed < input_len

\* The iteration's result becomes the state; the history takes note of it.
Iterate(t, r) ==
    /\ accounts' = r.accounts
    /\ applied_txs' = r.applied_txs
    /\ disputed_txs' = r.disputed_txs
    /\ tx_errors' = r.tx_errors
    /\ pc' = r.pc
    /\ consumed' = consumed + 1
    /\ rejected' = IF r.accepted THEN rejected ELSE rejected + 1
    /\ ever_applied' =
           IF r.accepted /\ t.transaction_type \in {"deposit", "withdrawal"}
           THEN ever_applied \cup {t.tx} ELSE ever_applied
    /\ open_disputes' =
           IF r.accepted /\ t.transaction_type = "dispute"
           THEN open_disputes \cup {t.tx}
           ELSE IF r.accepted /\ t.transaction_type \in {"resolve", "chargeback"}
           THEN open_disputes \ {t.tx}
           ELSE open_disputes
    /\ clients_seen' = clients_seen \cup {t.client}
    /\ charged_back' =
           IF r.accepted /\ t.transaction_type = "chargeback"
           THEN charged_back \cup {t.client} ELSE charged_back
    /\ UNCHANGED input_len

Init ==
    /\ accounts = <<>>
    /\ applied_txs = <<>>
    /\ disputed_txs = <<>>
    /\ tx_errors = <<>>
    /\ pc = "loop"
    /\ input_len \in 0..MaxRecords
    /\ consumed = 0
    /\ rejected = 0
    /\ ever_applied = {}
    /\ open_disputes = {}
    /\ clients_seen = {}
    /\ charged_back = {}

Deposit(t) ==
    HasNext /\ t.transaction_type = "deposit" /\ Iterate(t, deposit_arm(Locals, t))

Withdrawal(t) ==
    HasNext /\ t.transaction_type = "withdrawal"
            /\ Iterate(t, withdrawal_arm(Locals, t))

Dispute(t) ==
    HasNext /\ t.transaction_type = "dispute" /\ Iterate(t, dispute_arm(Locals, t))

Resolve(t) ==
    HasNext /\ t.transaction_type = "resolve" /\ Iterate(t, resolve_arm(Locals, t))

Chargeback(t) ==
    HasNext /\ t.transaction_type = "chargeback"
            /\ Iterate(t, chargeback_arm(Locals, t))

Unhandled(t) ==
    HasNext /\ t.transaction_type \notin
                   {"deposit", "withdrawal", "dispute", "resolve", "chargeback"}
            /\ Iterate(t, unhandled_arm(Locals, t))

\* The iterator is exhausted: return (accounts, tx_errors).
Return ==
    /\ pc = "loop"
    /\ consumed = input_len
    /\ pc' = "returned"
    /\ UNCHANGED <<accounts, applied_txs, disputed_txs, tx_errors, input_len,
                   consumed, rejected, ever_applied, open_disputes,
                   clients_seen, charged_back>>

\* process_transactions: one loop iteration, or the return.
Next ==
    \/ \E t \in Transaction : Deposit(t)
    \/ \E t \in Transaction : Withdrawal(t)
    \/ \E t \in Transaction : Dispute(t)
    \/ \E t \in Transaction : Resolve(t)
    \/ \E t \in Transaction : Chargeback(t)
    \/ \E t \in Transaction : Unhandled(t)
    \/ Return

Spec == Init /\ [][Next]_vars

\* The loop has no suspension point: an enabled step is eventually taken.
FairSpec == Spec /\ WF_vars(Next)

\* The runs in which no record carries a negative amount.
NonNegative == {t \in Transaction : t.amount >= 0}

NextNonNegative ==
    \/ \E t \in NonNegative : Deposit(t)
    \/ \E t \in NonNegative : Withdrawal(t)
    \/ \E t \in NonNegative : Dispute(t)
    \/ \E t \in NonNegative : Resolve(t)
    \/ \E t \in NonNegative : Chargeback(t)
    \/ \E t \in NonNegative : Unhandled(t)
    \/ Return

SpecNonNegative == Init /\ [][NextNonNegative]_vars

\* ========================================================= properties
\* The outcome of the loop body on record t in the current state.
Handled(t) == loop_body(Locals, t)

\* The records of one type.
Records(type) == {t \in Transaction : t.transaction_type = type}

\* The account client c has in map m; a client without one has no funds.
Funds(m, c) == IF c \in DOMAIN m THEN m[c] ELSE empty(c)

\* The text a diagnostic about record t carries.
Names(t) ==
    IF t.transaction_type \in
           {"deposit", "withdrawal", "dispute", "resolve", "chargeback"}
    THEN ToString(t.tx) ELSE ToString(t.transaction_type)

\* Outcome r of record t, handled in s, changed no balance, flag or ledger:
\* the accounts that existed are as they were and the only account it may
\* have added is the empty account of the record's client.
LeavesAlone(s, t, r) ==
    /\ \A c \in DOMAIN s.accounts : r.accounts[c] = s.accounts[c]
    /\ DOMAIN r.accounts = DOMAIN s.accounts \cup {t.client}
    /\ r.accounts[t.client] = Funds(s.accounts, t.client)
    /\ r.applied_txs = s.applied_txs
    /\ r.disputed_txs = s.disputed_txs

LeavesStateAlone(t, r) == LeavesAlone(Locals, t, r)

\* The rejections the dispatch rules list, read off the state before the
\* record is handled.
MustReject(t) ==
    LET a == Funds(accounts, t.client)
    IN  \/ /\ t.transaction_type = "withdrawal"
           /\ t.amount > a.available
        \/ /\ t.transaction_type = "dispute"
           /\ \/ t.tx \notin DOMAIN applied_txs
              \/ t.tx \in DOMAIN disputed_txs
              \/ applied_txs[t.tx] > a.available
        \/ /\ t.transaction_type \in {"resolve", "chargeback"}
           /\ \/ t.tx \notin DOMAIN disputed_txs
              \/ disputed_txs[t.tx] > a.held
        \/ t.transaction_type \notin
               {"deposit", "withdrawal", "dispute", "resolve", "chargeback"}

\* C1: in every reachable state every account satisfies
\* total = available + held.
C1_TotalIsAvailablePlusHeld ==
    \A c \in DOMAIN accounts :
        accounts[c].total = accounts[c].available + accounts[c].held

\* Reached: an account with funds on both sides, after a rejection and a
\* chargeback somewhere in the run.
C1_Witness ==
    /\ \E c \in DOMAIN accounts :
           accounts[c].available > 0 /\ accounts[c].held > 0
    /\ \E c \in DOMAIN accounts : accounts[c].locked
    /\ rejected > 0

\* C2: a record that is rejected, for any of the listed reasons, leaves the
\* balances and flags of every account and both ledgers unchanged; a failed
\* resolve or chargeback leaves the disputed entry in place.
C2_RejectionChangesNothing ==
    HasNext =>
    \A t \in Transaction :
        LET r == Handled(t)
        IN  /\ MustReject(t) => ~r.accepted
            /\ ~r.accepted => LeavesStateAlone(t, r)
            /\ /\ ~r.accepted
               /\ t.transaction_type \in {"resolve", "chargeback"}
               /\ t.tx \in DOMAIN disputed_txs
               => /\ t.tx \in DOMAIN r.disputed_txs
                  /\ r.disputed_txs[t.tx] = disputed_txs[t.tx]

\* Reached: a resolve that fails on a disputed tx id is about to be handled,
\* and so is a withdrawal that fails on an account with held funds.
C2_Witness ==
    /\ HasNext
    /\ \E t \in Records("resolve") :
           /\ t.tx \in DOMAIN disputed_txs
           /\ ~Handled(t).accepted
    /\ \E t \in Records("withdrawal") :
           /\ Funds(accounts, t.client).held > 0
           /\ ~Handled(t).accepted

\* No record stops the loop, whatever its outcome, and the function returns
\* only when the iterator is exhausted.
C3_NothingStopsTheLoop ==
    /\ HasNext => \A t \in Transaction : Handled(t).pc = "loop"
    /\ pc = "returned" => consumed = input_len

\* C3: for every finite input, process_transactions terminates having handled
\* every record exactly once, in order: each step takes exactly the next
\* record, a rejection never ends the loop, and the run ends returned with
\* the whole input consumed.
C3_ConsumesWholeInput ==
    /\ []C3_NothingStopsTheLoop
    /\ [][\/ consumed' = consumed + 1 /\ consumed < input_len
          \/ consumed' = consumed /\ consumed = input_len /\ pc' = "returned"]_vars
    /\ <>[](pc = "returned" /\ consumed = input_len)

\* Reached: a full-length input has been consumed and returned, some of its
\* records rejected and some accepted.
C3_Witness ==
    /\ pc = "returned"
    /\ consumed = MaxRecords
    /\ rejected > 0
    /\ rejected < consumed

\* C4: after any prefix the diagnostic list is as long as the number of
\* rejected records; a rejected record appends exactly one diagnostic, about
\* itself, at the end, and an accepted record appends none.
C4_OneDiagnosticPerRejection ==
    /\ Len(tx_errors) = rejected
    /\ HasNext =>
       \A t \in Transaction :
           LET r == Handled(t)
           IN  IF r.accepted
               THEN r.tx_errors = tx_errors
               ELSE r.tx_errors = Append(tx_errors, Names(t))

\* Reached: several diagnostics in a run that also accepted records, with a
\* record of either outcome about to be handled.
C4_Witness ==
    /\ HasNext
    /\ Len(tx_errors) >= 2
    /\ rejected < consumed
    /\ tx_errors[1] # tx_errors[2]
    /\ \E t \in Transaction : Handled(t).accepted
    /\ \E t \in Transaction : ~Handled(t).accepted

\* C5: every deposit record is accepted: available and total of its client's
\* account grow by the amount, held and locked stay, the applied ledger maps
\* the tx id to the amount and no diagnostic is appended, whatever the state
\* of the account (locked included).
C5_DepositAlwaysAccepted ==
    HasNext =>
    \A t \in Records("deposit") :
        LET r == Handled(t)
            a == Funds(accounts, t.client)
            b == r.accounts[t.client]
        IN  /\ r.accepted
            /\ b.available = a.available + t.amount
            /\ b.total = a.total + t.amount
            /\ b.held = a.held
            /\ b.locked = a.locked
            /\ t.tx \in DOMAIN r.applied_txs
            /\ r.applied_txs[t.tx] = t.amount
            /\ r.tx_errors = tx_errors

\* Reached: a deposit is about to be handled for a locked account, and for a
\* client that has no account yet.
C5_Witness ==
    /\ HasNext
    /\ \E t \in Records("deposit") :
           t.client \in DOMAIN accounts /\ accounts[t.client].locked
    /\ \E t \in Records("deposit") : t.client \notin DOMAIN accounts

\* Two more records are still to come.
HasTwoNext == pc = "loop" /\ consumed + 2 <= input_len

\* The outcome of the loop body on record u right after outcome r.
Then(r, u) == loop_body(locals_of(r), u)

\* Outcome q, of a record handled right after outcome r for the same client,
\* added one diagnostic and changed nothing else.
OnlyAddsDiagnostic(r, q) ==
    /\ ~q.accepted
    /\ q.accounts = r.accounts
    /\ q.applied_txs = r.applied_txs
    /\ q.disputed_txs = r.disputed_txs
    /\ Len(q.tx_errors) = Len(r.tx_errors) + 1

\* C6: a withdrawal is rejected exactly when its amount exceeds the available
\* funds of its client's account. Rejected, it changes no account, appends one
\* diagnostic and does not record the tx id, so that a dispute of a tx id no
\* other record applied is then rejected, whoever disputes, with one diagnostic
\* and no change; accepted, it takes the amount from
\* available and total and records the tx id in the applied ledger.
C6_WithdrawalRejectedIffInsufficient ==
    HasNext =>
    \A t \in Records("withdrawal") :
        LET r == Handled(t)
            a == Funds(accounts, t.client)
            b == r.accounts[t.client]
        IN  /\ ~r.accepted <=> t.amount > a.available
            /\ ~r.accepted =>
                   /\ LeavesStateAlone(t, r)
                   /\ Len(r.tx_errors) = Len(tx_errors) + 1
                   /\ t.tx \notin ever_applied =>
                          /\ t.tx \notin DOMAIN r.applied_txs
                          /\ \A d \in Records("dispute") :
                                 d.tx = t.tx =>
                                     /\ ~Then(r, d).accepted
                                     /\ LeavesAlone(r, d, Then(r, d))
                                     /\ Len(Then(r, d).tx_errors) =
                                            Len(r.tx_errors) + 1
            /\ r.accepted =>
                   /\ b.available = a.available - t.amount
                   /\ b.total = a.total - t.amount
                   /\ b.held = a.held
                   /\ b.locked = a.locked
                   /\ t.tx \in DOMAIN r.applied_txs
                   /\ r.applied_txs[t.tx] = t.amount
                   /\ r.tx_errors = tx_errors

\* Reached: a withdrawal of a tx id never applied is about to be rejected, a
\* withdrawal of exactly the available funds is about to be accepted.
C6_Witness ==
    /\ HasNext
    /\ \E t \in Records("withdrawal") :
           /\ t.tx \notin ever_applied
           /\ t.amount > 0
           /\ ~Handled(t).accepted
    /\ \E t \in Records("withdrawal") :
           /\ t.amount > 0
           /\ t.amount = Funds(accounts, t.client).available
           /\ Handled(t).accepted

\* C7: a dispute is accepted only if a deposit or withdrawal with the same tx
\* id was accepted earlier in the run; a dispute of a tx id not applied
\* earlier is rejected with one diagnostic and changes no account.
C7_DisputeNeedsAppliedTx ==
    HasNext =>
    \A t \in Records("dispute") :
        LET r == Handled(t)
        IN  /\ r.accepted => t.tx \in ever_applied
            /\ t.tx \notin ever_applied =>
                   /\ ~r.accepted
                   /\ LeavesStateAlone(t, r)
                   /\ Len(r.tx_errors) = Len(tx_errors) + 1

\* Reached: a client with available funds is about to dispute a tx id that was
\* never applied, and a dispute of an applied one is about to be accepted.
C7_Witness ==
    /\ HasNext
    /\ \E t \in Records("dispute") :
           /\ t.tx \notin ever_applied
           /\ Funds(accounts, t.client).available > 0
    /\ \E t \in Records("dispute") :
           t.tx \in ever_applied /\ Handled(t).accepted

\* A resolve or chargeback is accepted only if its tx id is in the disputed
\* ledger, which holds exactly the tx ids with an accepted dispute and no
\* accepted resolve or chargeback since.
C8_OnlyOpenDisputes(t, r) ==
    /\ DOMAIN disputed_txs = open_disputes
    /\ r.accepted => t.tx \in open_disputes
    /\ t.tx \notin open_disputes =>
           /\ ~r.accepted
           /\ LeavesStateAlone(t, r)
           /\ Len(r.tx_errors) = Len(tx_errors) + 1

\* C8 as claimed: a resolve or chargeback is accepted only if its tx id is
\* currently disputed, and of two successive resolves (or chargebacks) of the
\* same disputed tx id exactly the first is accepted, the second adding one
\* diagnostic and changing nothing.
C8_Original ==
    HasTwoNext =>
    \A t \in Records("resolve") \cup Records("chargeback") :
        LET r == Handled(t)
        IN  /\ C8_OnlyOpenDisputes(t, r)
            /\ t.tx \in DOMAIN disputed_txs =>
                   /\ r.accepted
                   /\ OnlyAddsDiagnostic(r, Then(r, t))

\* C8, amended: a resolve or chargeback is accepted only if its tx id is
\* currently disputed. Of two successive resolves (or chargebacks) of the same
\* disputed tx id by one client, the first is accepted exactly when the
\* recorded amount does not exceed that client's held funds, and the second
\* then adds one diagnostic and changes nothing; when the recorded amount
\* exceeds the held funds both are rejected, each adding one diagnostic and
\* changing nothing.
C8_ResolveOnlyWhileDisputed ==
    HasTwoNext =>
    \A t \in Records("resolve") \cup Records("chargeback") :
        LET r == Handled(t)
            q == Then(r, t)
        IN  /\ C8_OnlyOpenDisputes(t, r)
            /\ t.tx \in DOMAIN disputed_txs =>
                   /\ r.accepted <=>
                          disputed_txs[t.tx] <= Funds(accounts, t.client).held
                   /\ OnlyAddsDiagnostic(r, q)
                   /\ ~r.accepted =>
                          /\ LeavesStateAlone(t, r)
                          /\ Len(r.tx_errors) = Len(tx_errors) + 1

\* Reached: two resolves of a tx id disputed for a positive amount are about
\* to be handled, the first of them accepted; so are two chargebacks; and so
\* is a resolve with no dispute open for its tx id.
C8_Witness ==
    /\ HasTwoNext
    /\ \E t \in Records("resolve") :
           /\ t.tx \in DOMAIN disputed_txs
           /\ disputed_txs[t.tx] > 0
           /\ Handled(t).accepted
           /\ ~Then(Handled(t), t).accepted
    /\ \E t \in Records("chargeback") :
           /\ t.tx \in DOMAIN disputed_txs
           /\ Handled(t).accepted
    /\ \E t \in Records("resolve") : t.tx \notin open_disputes

\* C9: for a tx id that is applied, not disputed, and whose amount the
\* client's available funds cover, two successive disputes yield one accepted
\* dispute and one diagnostic, and the state after both is the state after
\* the first: the amount has moved to held once.
C9_SecondDisputeRejected ==
    HasTwoNext =>
    \A t \in Records("dispute") :
        LET a == Funds(accounts, t.client)
            r == Handled(t)
            q == Then(r, t)
        IN  /\ t.tx \in DOMAIN applied_txs
            /\ t.tx \notin DOMAIN disputed_txs
            /\ applied_txs[t.tx] <= a.available
            =>  /\ r.accepted
                /\ r.tx_errors = tx_errors
                /\ OnlyAddsDiagnostic(r, q)
                /\ q.accounts[t.client].held = a.held + applied_txs[t.tx]
                /\ q.accounts[t.client].available =
                       a.available - applied_txs[t.tx]

\* Reached: two disputes of an applied, undisputed tx id of positive amount
\* are about to be handled by a client whose available funds would cover the
\* amount twice.
C9_Witness ==
    /\ HasTwoNext
    /\ \E t \in Records("dispute") :
           /\ t.tx \in DOMAIN applied_txs
           /\ t.tx \notin DOMAIN disputed_txs
           /\ applied_txs[t.tx] > 0
           /\ 2 * applied_txs[t.tx] <= Funds(accounts, t.client).available

\* C10: an accepted dispute immediately followed by a resolve of the same tx
\* id by the same client: the resolve is accepted and the account (available,
\* held, total, locked) and the disputed ledger are as before the dispute.
C10_DisputeResolveRoundTrip ==
    HasTwoNext =>
    \A t \in Records("dispute") :
        LET r == Handled(t)
            q == Then(r, [t EXCEPT !.transaction_type = "resolve"])
        IN  r.accepted =>
                /\ q.accepted
                /\ q.accounts[t.client] = Funds(accounts, t.client)
                /\ q.disputed_txs = disputed_txs

\* A record of the given type for client c and tx id x.
Record(type, c, x, amount) ==
    [transaction_type |-> type, client |-> c, tx |-> x, amount |-> amount]

\* C11: a chargeback of a disputed tx id with recorded amount a is rejected
\* exactly when a exceeds the held funds of the addressed account; accepted,
\* it takes a from held and total, leaves available, sets locked and removes
\* the tx id from the disputed ledger. From the start of a run,
\* deposit(tx, 100), dispute(tx), chargeback(tx) on one client end with
\* available = 0, held = 0, total = 0, locked and no diagnostics.
C11_ChargebackTakesHeldFunds ==
    /\ HasNext =>
       \A t \in Records("chargeback") :
           LET r == Handled(t)
               a == Funds(accounts, t.client)
               b == r.accounts[t.client]
           IN  t.tx \in DOMAIN disputed_txs =>
                   /\ ~r.accepted <=> disputed_txs[t.tx] > a.held
                   /\ r.accepted =>
                          /\ b.held = a.held - disputed_txs[t.tx]
                          /\ b.total = a.total - disputed_txs[t.tx]
                          /\ b.available = a.available
                          /\ b.locked
                          /\ t.tx \notin DOMAIN r.disputed_txs
                          /\ r.tx_errors = tx_errors
    /\ consumed = 0 /\ input_len >= 3 =>
       \A c \in Clients, x \in TxIds :
           LET r == Then(Then(Handled(Record("deposit", c, x, 100)),
                              Record("dispute", c, x, 0)),
                         Record("chargeback", c, x, 0))
           IN  /\ r.accepted
               /\ r.accounts = (c :> new(c, 0, 0, TRUE))
               /\ r.disputed_txs = <<>>
               /\ r.tx_errors = <<>>

\* Reached: a chargeback of a tx id disputed for a positive amount is about
\* to be accepted for one client and rejected for another.
C11_Witness ==
    /\ HasNext
    /\ \E t \in Records("chargeback") :
           /\ t.tx \in DOMAIN disputed_txs
           /\ disputed_txs[t.tx] > 0
           /\ Handled(t).accepted
    /\ \E t \in Records("chargeback") :
           /\ t.tx \in DOMAIN disputed_txs
           /\ ~Handled(t).accepted

\* C12: chargeback is terminal for a tx id: once a chargeback of a tx id has
\* been accepted, no later dispute of that tx id is accepted. Stated for the
\* dispute that comes right after the chargeback, by any client.
C12_ChargebackIsTerminal ==
    HasTwoNext =>
    \A t \in Records("chargeback") :
        LET r == Handled(t)
        IN  r.accepted =>
                \A d \in Records("dispute") :
                    d.tx = t.tx => ~Then(r, d).accepted

\* Outcome q of dispute d, handled in s, moved the recorded amount of the tx
\* id from available to held in the account of d's client and opened the
\* dispute.
DisputeTookHold(s, d, q) ==
    LET a == Funds(s.accounts, d.client)
        b == q.accounts[d.client]
    IN  /\ q.accepted
        /\ b.available = a.available - s.applied_txs[d.tx]
        /\ b.held = a.held + s.applied_txs[d.tx]
        /\ b.total = a.total
        /\ b.locked = a.locked
        /\ q.disputed_txs = insert(s.disputed_txs, d.tx, s.applied_txs[d.tx])
        /\ q.applied_txs = s.applied_txs
        /\ q.tx_errors = s.tx_errors

\* C13: a resolved transaction can be disputed again. An accepted resolve
\* (which only a tx id with an accepted dispute gets) leaves the tx id in the
\* applied ledger and out of the disputed ledger, and a dispute of it right
\* after is accepted whenever the addressed account's available funds are at
\* least the recorded amount; so is, in any state, every dispute of a tx id
\* that is applied and not disputed, whatever happened to the id before.
C13_ResolvedCanBeDisputedAgain ==
    /\ HasTwoNext =>
       \A t \in Records("resolve") :
           LET r == Handled(t)
           IN  r.accepted =>
                   /\ t.tx \in open_disputes
                   /\ t.tx \in DOMAIN r.applied_txs
                   /\ t.tx \notin DOMAIN r.disputed_txs
                   /\ \A d \in Records("dispute") :
                          /\ d.tx = t.tx
                          /\ r.applied_txs[d.tx] <=
                                 Funds(r.accounts, d.client).available
                          => DisputeTookHold(locals_of(r), d, Then(r, d))
    /\ HasNext =>
       \A d \in Records("dispute") :
           /\ d.tx \in DOMAIN applied_txs
           /\ d.tx \notin DOMAIN disputed_txs
           /\ applied_txs[d.tx] <= Funds(accounts, d.client).available
           => DisputeTookHold(Locals, d, Handled(d))

\* Reached: a tx id disputed for a positive amount is about to be resolved
\* and then disputed again, both accepted.
C13_Witness ==
    /\ HasTwoNext
    /\ \E t \in Records("resolve") :
           /\ t.tx \in DOMAIN disputed_txs
           /\ disputed_txs[t.tx] > 0
           /\ applied_txs[t.tx] > 0
           /\ Handled(t).accepted
           /\ Then(Handled(t), [t EXCEPT !.transaction_type = "dispute"]).accepted

\* The accounts of map m with every locked flag cleared.
Unlocked(m) == [c \in DOMAIN m |-> [m[c] EXCEPT !.locked = FALSE]]

\* C14: the locked flag never influences processing. A record handled in the
\* current state and the same record handled in the state that differs only
\* in having every account unlocked are accepted or rejected alike and leave
\* the same balances, ledgers and diagnostics; the flags differ only by what
\* was locked before.
C14_LockedIsNeverRead ==
    HasNext =>
    \A t \in Transaction :
        LET r == Handled(t)
            u == loop_body([Locals EXCEPT !.accounts = Unlocked(accounts)], t)
        IN  /\ r.accepted = u.accepted
            /\ Unlocked(r.accounts) = Unlocked(u.accounts)
            /\ \A c \in DOMAIN r.accounts :
                   r.accounts[c].locked =
                       (Funds(accounts, c).locked \/ u.accounts[c].locked)
            /\ r.applied_txs = u.applied_txs
            /\ r.disputed_txs = u.disputed_txs
            /\ r.tx_errors = u.tx_errors

\* Reached: a locked account with available funds, for which a deposit, a
\* withdrawal and a dispute of a positive amount are each about to be
\* accepted.
C14_Witness ==
    /\ HasNext
    /\ \E c \in DOMAIN accounts :
           /\ accounts[c].locked
           /\ \A type \in {"deposit", "withdrawal", "dispute"} :
                  \E t \in Records(type) :
                      /\ t.client = c
                      /\ t.amount >= 0
                      /\ Handled(t).accepted
                      /\ Handled(t).accounts[c] # accounts[c]

\* C15: the account set holds exactly one account per distinct client id
\* that appeared in any record taken so far, the rejected and unrecognised
\* records included, which give a client seen for the first time an all-zero,
\* unlocked account; no record removes an account; an empty input yields no
\* accounts and no diagnostics.
C15_OneAccountPerClientSeen ==
    /\ DOMAIN accounts = clients_seen
    /\ \A c \in DOMAIN accounts : accounts[c].client = c
    /\ consumed = 0 => accounts = <<>> /\ tx_errors = <<>>
    /\ pc = "returned" /\ input_len = 0 => accounts = <<>> /\ tx_errors = <<>>
    /\ HasNext =>
       \A t \in Transaction :
           LET r == Handled(t)
           IN  /\ DOMAIN r.accounts = DOMAIN accounts \cup {t.client}
               /\ t.client \notin DOMAIN accounts /\ ~r.accepted =>
                      r.accounts[t.client] = empty(t.client)

\* Reached: after accepted and rejected records, a client that has no account
\* yet is about to get one from an unrecognised record and from a rejected
\* withdrawal.
C15_Witness ==
    /\ HasNext
    /\ accounts # <<>>
    /\ rejected > 0
    /\ rejected < consumed
    /\ \E t \in Records("refund") : t.client \notin clients_seen
    /\ \E t \in Records("withdrawal") :
           t.client \notin clients_seen /\ ~Handled(t).accepted

\* C16: every record changes at most the account of its own client field,
\* and a dispute, resolve or chargeback is decided on that account's funds.
\* When a client disputes a tx id that another client has just applied, the
\* dispute is accepted exactly when the disputing client's available funds
\* cover the amount, which then moves to held in the disputing client's
\* account; the account of the client that applied it is unchanged.
C16_OnlyTheAddressedAccount ==
    /\ HasNext =>
       \A t \in Transaction :
           LET r == Handled(t)
               a == Funds(accounts, t.client)
           IN  /\ \A c \in DOMAIN accounts \ {t.client} :
                      r.accounts[c] = accounts[c]
               /\ DOMAIN r.accounts \subseteq DOMAIN accounts \cup {t.client}
               /\ /\ t.transaction_type = "dispute"
                  /\ t.tx \in DOMAIN applied_txs
                  /\ t.tx \notin DOMAIN disputed_txs
                  => (r.accepted <=> applied_txs[t.tx] <= a.available)
               /\ /\ t.transaction_type \in {"resolve", "chargeback"}
                  /\ t.tx \in DOMAIN disputed_txs
                  => (r.accepted <=> disputed_txs[t.tx] <= a.held)
    /\ HasTwoNext =>
       \A x \in Records("deposit") \cup Records("withdrawal") :
           \A d \in Records("dispute") :
               LET r == Handled(x)
                   q == Then(r, d)
               IN  /\ d.tx = x.tx
                   /\ d.client # x.client
                   /\ x.tx \notin DOMAIN disputed_txs
                   /\ r.accepted
                   =>  /\ q.accepted <=>
                              x.amount <= Funds(r.accounts, d.client).available
                       /\ q.accepted => DisputeTookHold(locals_of(r), d, q)
                       /\ q.accounts[x.client] = r.accounts[x.client]

\* Reached: a deposit of one client is about to be followed by the other
\* client's dispute of it, accepted out of the other client's own funds; and
\* a deposit whose dispute by a client without funds is rejected.
C16_Witness ==
    /\ HasTwoNext
    /\ \E x \in Records("deposit"), d \in Records("dispute") :
           /\ d.tx = x.tx
           /\ d.client # x.client
           /\ x.amount > 0
           /\ x.tx \notin DOMAIN disputed_txs
           /\ Then(Handled(x), d).accepted
    /\ \E x \in Records("deposit"), d \in Records("dispute") :
           /\ d.tx = x.tx
           /\ d.client # x.client
           /\ x.amount > 0
           /\ x.tx \notin DOMAIN disputed_txs
           /\ ~Then(Handled(x), d).accepted

\* C17: an account is created unlocked, becomes locked exactly when a
\* chargeback addressed to it is accepted, and stays locked: the locked
\* accounts are those of the clients with an accepted chargeback so far, and
\* a record changes a flag only by being such a chargeback.
C17_LockedOnlyByChargeback ==
    /\ \A c \in DOMAIN accounts : accounts[c].locked <=> c \in charged_back
    /\ HasNext =>
       \A t \in Transaction :
           LET r == Handled(t)
           IN  \A c \in DOMAIN r.accounts :
                   r.accounts[c].locked <=>
                       \/ Funds(accounts, c).locked
                       \/ /\ t.transaction_type = "chargeback"
                          /\ t.client = c
                          /\ r.accepted

\* Reached: one account has been locked by a chargeback, another has funds
\* and is not locked; a deposit to the first and a chargeback addressed to
\* the second, rejected, are about to be handled.
C17_Witness ==
    /\ HasNext
    /\ \E c, k \in DOMAIN accounts :
           /\ accounts[c].locked
           /\ c \in charged_back
           /\ ~accounts[k].locked
           /\ accounts[k].available > 0
           /\ \E t \in Records("chargeback") :
                  t.client = k /\ ~Handled(t).accepted
           /\ \E t \in Records("deposit") :
                  t.client = c /\ Handled(t).accepted

RECURSIVE SumOver(_, _)
SumOver(f, S) ==
    IF S = {} THEN 0
    ELSE LET k == CHOOSE x \in S : TRUE
         IN  f[k] + SumOver(f, S \ {k})

\* The held funds of all accounts of map m together.
TotalHeld(m) == SumOver([c \in DOMAIN m |-> m[c].held], DOMAIN m)

\* The amounts of all entries of ledger l together.
TotalOf(l) == SumOver(l, DOMAIN l)

\* C19: in every reachable state the held funds of all accounts together
\* equal the amounts in the disputed ledger together, also when a resolve or
\* chargeback comes from another client than the dispute and when a tx id is
\* applied again with another amount while it is disputed.
C19_HeldMatchesDisputedLedger ==
    TotalHeld(accounts) = TotalOf(disputed_txs)

\* Reached: two disputes are open, of amounts of either sign and held in
\* different accounts, one of them of a tx id that has since been applied
\* again with another amount.
C19_Witness ==
    /\ \E x \in DOMAIN disputed_txs : applied_txs[x] # disputed_txs[x]
    /\ \E x \in DOMAIN disputed_txs : disputed_txs[x] > 0
    /\ \E c, k \in DOMAIN accounts :
           accounts[c].held > 0 /\ accounts[k].held < 0

\* C20: when every deposit and withdrawal carries a non-negative amount,
\* every account has available >= 0, held >= 0 and total >= 0 in every
\* reachable state.
C20_BalancesNeverNegative ==
    \A c \in DOMAIN accounts :
        /\ accounts[c].available >= 0
        /\ accounts[c].held >= 0
        /\ accounts[c].total >= 0

\* Reached, with non-negative amounts only: an account whose funds are all
\* on hold next to an account with available funds, after a record that
\* would have overdrawn an account has been rejected.
C20_Witness ==
    /\ \A x \in DOMAIN applied_txs : applied_txs[x] >= 0
    /\ \E c, k \in DOMAIN accounts :
           /\ accounts[c].available = 0
           /\ accounts[c].held > 0
           /\ accounts[k].available > 0
    /\ rejected > 0

====
